---- MODULE Spec2Model ----
(***************************************************************************)
(* Model of src/app.py, the Streamlit dashboard that resolves a stock      *)
(* symbol to an ISIN (NSE), the ISIN to a MoneyControl sc_id, fetches the  *)
(* weekly technical indicators and renders them by category.               *)
(*                                                                         *)
(* Text is modelled as a sequence of one-character strings, so that the    *)
(* substring tests ('MA' in name) and str.replace are computed, not        *)
(* assumed.                                                                *)
(***************************************************************************)
EXTENDS Integers, Sequences, FiniteSets, TLC

VARIABLES
    \* ---- the dashboard (main) ----
    xlsx,               \* stock_symbols.xlsx on disk
    regex,              \* whether Series.str.replace treats '.NS' as a regex
    pc,                 \* where the script is: start, idle, or blocked in a GET
    stock_symbols,      \* load_stock_symbols()
    load_error,         \* st.error of load_stock_symbols was shown
    search_option,      \* st.radio
    selected_symbols,   \* the selection the clicked button ran with
    cur,                \* selected_symbol / symbol of the running pipeline
    todo,               \* rest of selected_symbols still to be iterated
    isin, sc_id, stock_name,   \* locals of the running pipeline
    log,                \* every HTTP request issued since the button click
    outcomes,           \* what each pipeline of this click ended with
    escaped,            \* an exception left main()
    stalled,            \* the upstream of the pending GET will never answer
    \* ---- display_technical_indicators, the categorisation loop ----
    indicators, idx,
    trend_indicators, momentum_indicators, volatility_indicators, volume_indicators,
    \* ---- the suffix stripping of load_stock_symbols applied repeatedly ----
    sym, prev, passes

mainVars == <<xlsx, regex, pc, stock_symbols, load_error, search_option,
              selected_symbols, cur, todo,
              isin, sc_id, stock_name, log, outcomes, escaped, stalled>>
classifyVars == <<indicators, idx, trend_indicators, momentum_indicators,
                  volatility_indicators, volume_indicators>>
stripVars == <<sym, prev, passes>>
vars == <<mainVars, classifyVars, stripVars>>

(***************************************************************************)
(* Bounds                                                                  *)
(***************************************************************************)
MaxRows == 2          \* rows of the catalog file
MaxNameLen == 4       \* length of the generated indicator names
MaxIndicators == 2    \* indicators in a payload built from the named ones
MaxSymLen == 6        \* length of the generated raw symbols

(***************************************************************************)
(* Text helpers                                                            *)
(***************************************************************************)
Range(s) == {s[i] : i \in 1..Len(s)}

\* Python's  k in s  for strings.
Contains(s, k) ==
    \E i \in 0..(Len(s) - Len(k)) : SubSeq(s, i + 1, i + Len(k)) = k

\* All texts over alphabet A of length at most n.
TextsUpTo(A, n) == UNION {[1..m -> A] : m \in 0..n}


(***************************************************************************)
(* load_stock_symbols: the catalog file and the '.NS' replacement          *)
(***************************************************************************)
\* Whether str.replace('.NS', '') finds an occurrence at position i of s. As a
\* regular expression (the default of pandas before 2.0) the dot matches any
\* character; as a literal (pandas 2.0 and later) it matches a dot.
MatchAt(s, i, rx) ==
    /\ i + 2 <= Len(s)
    /\ (rx \/ s[i] = ".")
    /\ s[i + 1] = "N"
    /\ s[i + 2] = "S"

\* The replacement scans left to right and removes every non-overlapping
\* occurrence, wherever it stands in the value.
RECURSIVE ReplaceFrom(_, _, _)
ReplaceFrom(s, i, rx) ==
    IF i > Len(s) THEN <<>>
    ELSE IF MatchAt(s, i, rx) THEN ReplaceFrom(s, i + 3, rx)
    ELSE <<s[i]>> \o ReplaceFrom(s, i + 1, rx)

\* symbols_df['Symbol'].str.replace('.NS', '') on one value
replace_NS(s, rx) == ReplaceFrom(s, 1, rx)

\* The rows a readable catalog file may hold, in file order.
RawList ==
    << <<"T", "C", "S", ".", "N", "S">>,
       <<"I", "T", "C">>,
       <<"S", "B", "I", "N", ".", "N", "S">>,
       <<"L", "T", ".", "N", "S">> >>

\* stock_symbols.xlsx: missing, readable without a Symbol column, or readable.
Files ==
    {[state |-> "missing", rows |-> <<>>], [state |-> "no_symbol_column", rows |-> <<>>]}
    \cup {[state |-> "ok", rows |-> SubSeq(RawList, 1, n)] :
             n \in 0..(IF MaxRows < Len(RawList) THEN MaxRows ELSE Len(RawList))}

\* load_stock_symbols(): the list returned and whether st.error was called.
\* pd.read_excel raises on a missing file, symbols_df['Symbol'] raises KeyError
\* without the column; the bare except turns both into st.error and [].
load_stock_symbols(file, rx) ==
    IF file.state = "ok"
    THEN [symbols |-> [i \in 1..Len(file.rows) |-> replace_NS(file.rows[i], rx)],
          error |-> FALSE]
    ELSE [symbols |-> <<>>, error |-> TRUE]

(***************************************************************************)
(* display_technical_indicators: the categorisation of the indicators      *)
(***************************************************************************)
KW_MA == <<"M", "A">>
KW_Moving_Average == <<"M", "o", "v", "i", "n", "g", " ", "A", "v", "e", "r", "a", "g", "e">>
KW_EMA == <<"E", "M", "A">>
KW_RSI == <<"R", "S", "I">>
KW_Stochastic == <<"S", "t", "o", "c", "h", "a", "s", "t", "i", "c">>
KW_Momentum == <<"M", "o", "m", "e", "n", "t", "u", "m">>
KW_MACD == <<"M", "A", "C", "D">>
KW_Bollinger == <<"B", "o", "l", "l", "i", "n", "g", "e", "r">>
KW_ATR == <<"A", "T", "R">>
KW_Volatility == <<"V", "o", "l", "a", "t", "i", "l", "i", "t", "y">>
KW_Volume == <<"V", "o", "l", "u", "m", "e">>
KW_OBV == <<"O", "B", "V">>

\* The four conditions of the if/elif chain.
IsTrend(name) ==
    Contains(name, KW_MA) \/ Contains(name, KW_Moving_Average) \/ Contains(name, KW_EMA)
IsMomentum(name) ==
    \/ Contains(name, KW_RSI) \/ Contains(name, KW_Stochastic)
    \/ Contains(name, KW_Momentum) \/ Contains(name, KW_MACD)
IsVolatility(name) ==
    Contains(name, KW_Bollinger) \/ Contains(name, KW_ATR) \/ Contains(name, KW_Volatility)
IsVolume(name) ==
    Contains(name, KW_Volume) \/ Contains(name, KW_OBV)

\* Mutant: the Momentum test is made before the Trend test.
ClassifyMomentumFirst(name) ==
    IF IsMomentum(name) THEN "Momentum"
    ELSE IF IsTrend(name) THEN "Trend"
    ELSE IF IsVolatility(name) THEN "Volatility"
    ELSE IF IsVolume(name) THEN "Volume"
    ELSE "Trend"

\* Mutant: the final else is missing, an unmatched indicator joins no list.
ClassifyNoDefault(name) ==
    IF IsTrend(name) THEN "Trend"
    ELSE IF IsMomentum(name) THEN "Momentum"
    ELSE IF IsVolatility(name) THEN "Volatility"
    ELSE IF IsVolume(name) THEN "Volume"
    ELSE "Dropped"

\* The list the if/elif/else chain appends an indicator of this name to.
Classify(name) ==
    IF IsTrend(name) THEN "Trend"
    ELSE IF IsMomentum(name) THEN "Momentum"
    ELSE IF IsVolatility(name) THEN "Volatility"
    ELSE IF IsVolume(name) THEN "Volume"
    ELSE "Trend"

Name_RSI14 == <<"R", "S", "I", "(", "1", "4", ")">>
Name_20DayMA == <<"2", "0", " ", "D", "a", "y", " ", "M", "A">>
Name_ADX14 == <<"A", "D", "X", "(", "1", "4", ")">>

\* Indicator names as the feed gives them, and one that is missing ('').
NamedIndicators ==
    { Name_RSI14, Name_20DayMA, Name_ADX14,
      <<"M", "A", "C", "D", "(", "1", "2", ",", "2", "6", ",", "9", ")">>,
      <<"E", "M", "A", "(", "2", "0", ")">>,
      <<"B", "o", "l", "l", "i", "n", "g", "e", "r", " ", "B", "a", "n", "d", "s">>,
      <<"A", "T", "R", "(", "1", "4", ")">>,
      <<"V", "o", "l", "u", "m", "e">>,
      <<"O", "B", "V">>,
      <<"S", "t", "o", "c", "h", "a", "s", "t", "i", "c">>,
      <<"M", "o", "m", "e", "n", "t", "u", "m">>,
      <<"M", "o", "v", "i", "n", "g", " ", "A", "v", "e", "r", "a", "g", "e">>,
      <<"V", "o", "l", "a", "t", "i", "l", "i", "t", "y">>,
      <<"R", "S", "I", " ", "E", "M", "A">>,
      <<>> }

\* Every short name over the letters of the overlapping keywords.
GeneratedNames == TextsUpTo({"M", "A", "C", "D", "E"}, MaxNameLen)

\* data['data']['techindicator']: records with a name; value tells two
\* records of the same name apart.
Payloads ==
    {[i \in 1..Len(ns) |-> [name |-> ns[i], value |-> i]] :
        ns \in UNION {[1..m -> NamedIndicators] : m \in 0..MaxIndicators}}
    \cup {<<[name |-> n, value |-> 1]>> : n \in GeneratedNames}

ClassifyIdle ==
    /\ indicators = <<>>
    /\ idx = 1
    /\ trend_indicators = <<>>
    /\ momentum_indicators = <<>>
    /\ volatility_indicators = <<>>
    /\ volume_indicators = <<>>

StripIdle ==
    /\ sym = <<>>
    /\ prev = <<>>
    /\ passes = 0

MainIdle ==
    /\ xlsx = [state |-> "missing", rows |-> <<>>]
    /\ regex = FALSE
    /\ pc = "start"
    /\ stock_symbols = <<>>
    /\ load_error = FALSE
    /\ search_option = "Symbol"
    /\ selected_symbols = <<>>
    /\ cur = <<>>
    /\ todo = <<>>
    /\ isin = <<>>
    /\ sc_id = <<>>
    /\ stock_name = <<>>
    /\ log = <<>>
    /\ outcomes = <<>>
    /\ escaped = FALSE
    /\ stalled = FALSE

\* The four lists start empty; the loop has not yet taken an indicator.
ClassifyInit ==
    /\ indicators \in Payloads
    /\ idx = 1
    /\ trend_indicators = <<>>
    /\ momentum_indicators = <<>>
    /\ volatility_indicators = <<>>
    /\ volume_indicators = <<>>
    /\ MainIdle
    /\ StripIdle

\* One iteration of  for indicator in indicators.
ClassifyStep ==
    /\ idx <= Len(indicators)
    /\ LET indicator == indicators[idx]
           c == Classify(indicator.name)
       IN /\ trend_indicators' =
                IF c = "Trend" THEN Append(trend_indicators, indicator)
                ELSE trend_indicators
          /\ momentum_indicators' =
                IF c = "Momentum" THEN Append(momentum_indicators, indicator)
                ELSE momentum_indicators
          /\ volatility_indicators' =
                IF c = "Volatility" THEN Append(volatility_indicators, indicator)
                ELSE volatility_indicators
          /\ volume_indicators' =
                IF c = "Volume" THEN Append(volume_indicators, indicator)
                ELSE volume_indicators
    /\ idx' = idx + 1
    /\ UNCHANGED <<indicators, mainVars, stripVars>>

ClassifyNext == ClassifyStep

SpecClassify == ClassifyInit /\ [][ClassifyNext]_vars

(***************************************************************************)
(* The replacement of load_stock_symbols applied to its own result         *)
(***************************************************************************)
MaxPasses == 2

RawSymbols == TextsUpTo({".", "N", "S", "A"}, MaxSymLen)

StripInit ==
    /\ sym \in RawSymbols
    /\ prev = sym
    /\ passes = 0
    /\ regex \in BOOLEAN
    /\ xlsx = [state |-> "missing", rows |-> <<>>]
    /\ pc = "start"
    /\ stock_symbols = <<>>
    /\ load_error = FALSE
    /\ search_option = "Symbol"
    /\ selected_symbols = <<>>
    /\ cur = <<>> /\ todo = <<>> /\ isin = <<>> /\ sc_id = <<>> /\ stock_name = <<>>
    /\ log = <<>> /\ outcomes = <<>> /\ escaped = FALSE /\ stalled = FALSE
    /\ ClassifyIdle

\* One more application of the replacement to the value.
StripPass ==
    /\ passes < MaxPasses
    /\ prev' = sym
    /\ sym' = replace_NS(sym, regex)
    /\ passes' = passes + 1
    /\ UNCHANGED <<mainVars, classifyVars>>

StripNext == StripPass

SpecStrip == StripInit /\ [][StripNext]_vars

(***************************************************************************)
(* main: the two button handlers and the pipeline they run per symbol      *)
(***************************************************************************)
HTTP_OK == 200

\* Python's None, as a text no symbol or identifier can equal.
None == <<"None">>

\* The GETs a pipeline blocks in, by the name of what they ask for.
Stages == {"home", "quote", "search", "fetch"}

\* What an upstream can answer: the call raises (a network error), or returns
\* a status and a body of one of the given kinds.
Responses(bodies) ==
    {[exc |-> "ConnectionError", status |-> 0, body |-> "none"]}
    \cup {[exc |-> "none", status |-> st, body |-> b] : st \in {HTTP_OK, 500}, b \in bodies}

HomeResponses == Responses({"html"})
\* quote-equity: JSON holding metadata.isin, text that is no JSON, JSON
\* without the field
QuoteResponses == Responses({"ok", "malformed", "nofield"})
\* autosuggestion: a non-empty array whose first element has sc_id and
\* stock_name, the empty array, text that is no JSON, an element without sc_id
SearchResponses == Responses({"ok", "empty", "malformed", "nofield"})
\* techindicator feed: a full payload, the empty object, text that is no JSON,
\* a payload without indicators, a payload whose change is no number
FetchResponses == Responses({"ok", "empty", "malformed", "no_indicators", "bad_change"})

\* Identifiers the upstreams hand out for a query.
IsinOf(symbol) == <<"isin:">> \o symbol
ScIdOf(query) == <<"sc_id:">> \o query
NameOf(query) == <<"stock_name:">> \o query

\* A request as issued: requests.get(url, headers=headers) passes no timeout.
\* type is the query-type discriminator of the autosuggestion URL, 0 elsewhere.
\* The two NSE requests go through the requests.Session() the pipeline made
\* for itself, the MoneyControl ones through no session (0).
Req(k, kind, arg, type) ==
    [pipe |-> k, kind |-> kind, arg |-> arg, type |-> type,
     session |-> IF kind \in {"home", "quote"} THEN k ELSE 0,
     timeout |-> "none", result |-> "pending"]

\* get_sc_id builds its URL with type=1 whatever it is given.
SearchReq(k, query) == Req(k, "search", query, 1)

\* The log with its last (the pending) request answered.
Answered(l, result) == [l EXCEPT ![Len(l)].result = result]

\* Mutant: the session is not warmed up, the pipeline starts at the quote.
FirstStageQuote == "quote"

\* The first request of a pipeline: s.get("https://www.nseindia.com/").
FirstStage == "home"

\* The first request of the pipeline of symbol s, the k-th of this click.
FirstReq(k, s) == Req(k, FirstStage, IF FirstStage = "home" THEN <<>> ELSE s, 0)

\* Mutant: the handler catches only the exceptions of requests.
CaughtRequestsOnly(exc) == exc = "ConnectionError"

\* except Exception: every exception a stage raises is a subclass of Exception.
Caught(exc) ==
    exc \in {"ConnectionError", "JSONDecodeError", "KeyError", "ValueError"}

\* Mutant: the indicators are fetched whatever the lookup returned.
ScIdAlways(id) == TRUE

\* if sc_id:
ScIdFound(id) == id # None /\ id # <<>>

\* get_sc_id after its GET: the pair returned. The empty array is falsy; json()
\* of malformed text, [0]['sc_id'] of an element without it and a network
\* error all raise inside the try, and the bare except returns (None, None).
get_sc_id(r, query) ==
    IF r.exc = "none" /\ r.status = HTTP_OK /\ r.body = "ok"
    THEN <<ScIdOf(query), NameOf(query)>>
    ELSE <<None, None>>

\* fetch_technical_indicators after its GET: nothing catches here, so a
\* network error and json() of malformed text leave the function as exceptions.
fetch_technical_indicators(r) ==
    IF r.exc # "none" THEN [exc |-> r.exc, data |-> "None"]
    ELSE IF r.status = HTTP_OK
         THEN IF r.body = "malformed" THEN [exc |-> "JSONDecodeError", data |-> "None"]
              ELSE [exc |-> "none", data |-> r.body]
         ELSE [exc |-> "none", data |-> "None"]

\* if data:  (None and the empty object are falsy)
Truthy(data) == data \notin {"None", "empty"}

\* display_technical_indicators(data, stock_name): the warning when the payload
\* has no indicators, else float(change), which raises on a change that is no
\* number, else the rendered card and lists.
display_technical_indicators(data) ==
    IF ~Truthy(data) THEN [exc |-> "none", msg |-> "warn_no_data"]
    ELSE IF data = "no_indicators" THEN [exc |-> "none", msg |-> "warn_no_indicators"]
    ELSE IF data = "bad_change" THEN [exc |-> "ValueError", msg |-> "none"]
    ELSE [exc |-> "none", msg |-> "rendered"]

\* st.selectbox returns None when it has no options.
SelectboxChoices(options) == IF options = <<>> THEN {None} ELSE Range(options)

\* st.multiselect returns the chosen options, each once, in the order chosen.
MultiselectChoices(options) ==
    {c \in UNION {[1..m -> Range(options)] : m \in 0..Len(options)} :
        \A i, j \in 1..Len(c) : i # j => c[i] # c[j]}

MainInit ==
    /\ xlsx \in Files
    /\ regex \in BOOLEAN
    /\ pc = "start"
    /\ stock_symbols = <<>>
    /\ load_error = FALSE
    /\ search_option = "Symbol"
    /\ selected_symbols = <<>>
    /\ cur = None
    /\ todo = <<>>
    /\ isin = None
    /\ sc_id = None
    /\ stock_name = None
    /\ log = <<>>
    /\ outcomes = <<>>
    /\ escaped = FALSE
    /\ stalled = FALSE

Init == MainInit /\ ClassifyIdle /\ StripIdle

fixedVars == <<xlsx, regex, stock_symbols, load_error, search_option, selected_symbols,
               stalled, classifyVars, stripVars>>

\* The pending GET returned and the next one is issued.
Issue(result, req) ==
    /\ log' = Append(Answered(log, result), req)
    /\ pc' = req.kind
    /\ UNCHANGED <<cur, todo, outcomes, escaped>>

\* The pipeline of cur ends with a message; the for loop takes the next
\* symbol, if any, and issues its first request; else main returns.
Finish(result, msg, cause) ==
    /\ outcomes' = Append(outcomes, [symbol |-> cur, msg |-> msg, stage |-> pc,
                                     cause |-> cause])
    /\ escaped' = escaped
    /\ IF todo # <<>>
       THEN /\ cur' = Head(todo)
            /\ todo' = Tail(todo)
            /\ log' = Append(Answered(log, result), FirstReq(Len(outcomes) + 2, Head(todo)))
            /\ pc' = FirstStage
       ELSE /\ log' = Answered(log, result)
            /\ pc' = "idle"
            /\ UNCHANGED <<cur, todo>>

\* An exception inside the try: the handler shows the generic message, or the
\* exception leaves main and the run ends there.
Raise(exc, cause) ==
    IF Caught(exc)
    THEN Finish("raised", "err_generic", cause)
    ELSE /\ escaped' = TRUE
         /\ log' = Answered(log, "raised")
         /\ pc' = "idle"
         /\ todo' = <<>>
         /\ UNCHANGED <<cur, outcomes>>

\* The first run of the script: the catalog is loaded, the widgets are drawn.
Startup ==
    /\ pc = "start"
    /\ LET loaded == load_stock_symbols(xlsx, regex)
       IN /\ stock_symbols' = loaded.symbols
          /\ load_error' = loaded.error
    /\ pc' = "idle"
    /\ UNCHANGED <<xlsx, regex, search_option, selected_symbols, cur, todo, isin, sc_id,
                   stock_name, log, outcomes, escaped, stalled, classifyVars, stripVars>>

\* The user switches the radio; the script reruns and draws no results.
ChooseOption ==
    /\ pc = "idle"
    /\ \E o \in {"Symbol", "Multiple Symbols"} :
          /\ o # search_option
          /\ search_option' = o
    /\ selected_symbols' = <<>>
    /\ log' = <<>>
    /\ outcomes' = <<>>
    /\ escaped' = FALSE
    /\ UNCHANGED <<xlsx, regex, pc, stock_symbols, load_error, cur, todo, isin, sc_id,
                   stock_name, stalled, classifyVars, stripVars>>

\* The button is clicked with this selection: the loop body starts for the
\* first symbol, or there is none and main returns.
Begin(selection) ==
    /\ selected_symbols' = selection
    /\ outcomes' = <<>>
    /\ escaped' = FALSE
    /\ isin' = None
    /\ sc_id' = None
    /\ stock_name' = None
    /\ IF selection = <<>>
       THEN /\ cur' = None
            /\ todo' = <<>>
            /\ log' = <<>>
            /\ pc' = "idle"
       ELSE /\ cur' = Head(selection)
            /\ todo' = Tail(selection)
            /\ log' = <<FirstReq(1, Head(selection))>>
            /\ pc' = FirstStage
    /\ UNCHANGED <<xlsx, regex, stock_symbols, load_error, search_option, stalled,
                   classifyVars, stripVars>>

\* "Get Technical Indicators" with search_option "Symbol".
ClickSymbol ==
    /\ pc = "idle"
    /\ search_option = "Symbol"
    /\ \E selected_symbol \in SelectboxChoices(stock_symbols) : Begin(<<selected_symbol>>)

\* "Get Technical Indicators" with search_option "Multiple Symbols".
ClickMultiple ==
    /\ pc = "idle"
    /\ search_option = "Multiple Symbols"
    /\ \E selection \in MultiselectChoices(stock_symbols) : Begin(selection)

\* s.get("https://www.nseindia.com/") returns; its status is not looked at.
HomeReturn ==
    /\ pc = "home"
    /\ ~stalled
    /\ \E r \in HomeResponses :
          IF r.exc # "none" THEN Raise(r.exc, "network")
          ELSE Issue("returned", Req(Len(outcomes) + 1, "quote", cur, 0))
    /\ UNCHANGED <<isin, sc_id, stock_name, fixedVars>>

\* s.get(nse_url) returns: the ISIN is read and get_sc_id(isin) issues its
\* GET, or the status is not 200 and the pipeline ends.
QuoteReturn ==
    /\ pc = "quote"
    /\ ~stalled
    /\ \E r \in QuoteResponses :
          IF r.exc # "none" THEN Raise(r.exc, "network") /\ isin' = isin
          ELSE IF r.status # HTTP_OK
          THEN Finish("novalue", "err_isin", "status") /\ isin' = isin
          ELSE IF r.body = "malformed" THEN Raise("JSONDecodeError", "malformed") /\ isin' = isin
          ELSE IF r.body = "nofield" THEN Raise("KeyError", "nofield") /\ isin' = isin
          ELSE /\ isin' = IsinOf(cur)
               /\ Issue("value", SearchReq(Len(outcomes) + 1, IsinOf(cur)))
    /\ UNCHANGED <<sc_id, stock_name, fixedVars>>

\* The GET of get_sc_id returns: with an sc_id the indicators are requested,
\* else the pipeline ends.
SearchReturn ==
    /\ pc = "search"
    /\ ~stalled
    /\ \E r \in SearchResponses :
          LET found == get_sc_id(r, isin)
              result == IF found[1] = None THEN "novalue" ELSE "value"
              cause == IF r.exc # "none" THEN "network"
                       ELSE IF r.status # HTTP_OK THEN "status"
                       ELSE r.body
          IN /\ sc_id' = found[1]
             /\ stock_name' = found[2]
             /\ IF ScIdFound(found[1])
                THEN Issue(result, Req(Len(outcomes) + 1, "fetch", found[1], 0))
                ELSE Finish(result, "err_not_found", cause)
    /\ UNCHANGED <<isin, fixedVars>>

\* The GET of fetch_technical_indicators returns: the payload is displayed,
\* or there is none and the pipeline ends.
FetchReturn ==
    /\ pc = "fetch"
    /\ ~stalled
    /\ \E r \in FetchResponses :
          LET got == fetch_technical_indicators(r)
              cause == IF r.exc # "none" THEN "network"
                       ELSE IF r.status # HTTP_OK THEN "status"
                       ELSE r.body
          IN IF got.exc # "none" THEN Raise(got.exc, cause)
             ELSE IF Truthy(got.data)
             THEN LET shown == display_technical_indicators(got.data)
                  IN IF shown.exc # "none" THEN Raise(shown.exc, "render")
                     ELSE Finish("value", shown.msg, "none")
             ELSE Finish("novalue", "err_fetch", cause)
    /\ UNCHANGED <<isin, sc_id, stock_name, fixedVars>>

\* The upstream of the pending GET never answers. requests.get was given no
\* timeout, so the call does not return and nothing else runs.
Stall ==
    /\ pc \in Stages
    /\ ~stalled
    /\ stalled' = TRUE
    /\ UNCHANGED <<xlsx, regex, pc, stock_symbols, load_error, search_option,
                   selected_symbols, cur, todo, isin, sc_id, stock_name, log, outcomes,
                   escaped, classifyVars, stripVars>>

Next ==
    \/ Startup
    \/ ChooseOption
    \/ ClickSymbol
    \/ ClickMultiple
    \/ HomeReturn
    \/ QuoteReturn
    \/ SearchReturn
    \/ FetchReturn
    \/ Stall

Spec == Init /\ [][Next]_vars

\* The script thread runs whenever it can; an answer that is on its way
\* arrives. Nothing is assumed of an upstream that stalls.
LiveSpec == Spec /\ WF_vars(Next)

(***************************************************************************)
(* Properties                                                              *)
(***************************************************************************)
\* The requests issued for the k-th pipeline of the click.
PipeReqs(k) == {i \in 1..Len(log) : log[i].pipe = k}

\* C1: a pipeline that reports a failure without a provider ID from an
\* ISIN-mode lookup (the ISIN could not be fetched, or the ISIN-mode search
\* found nothing) has first issued a symbol-mode lookup (type=2) with the raw
\* symbol.
C1_SymbolModeFallback ==
    \A k \in 1..Len(outcomes) :
        outcomes[k].msg \in {"err_isin", "err_not_found"} =>
            \E i \in PipeReqs(k) :
                /\ log[i].kind = "search"
                /\ log[i].type = 2
                /\ log[i].arg = outcomes[k].symbol

\* C2: the indicators are requested only after a lookup of the same pipeline
\* returned an sc_id; a lookup that yields no value is followed by no
\* indicator request and the pipeline ends with the not-found message.
C2_NoFetchWithoutScId ==
    /\ \A i \in 1..Len(log) :
          log[i].kind = "fetch" =>
              \E j \in 1..(i - 1) :
                  /\ log[j].pipe = log[i].pipe
                  /\ log[j].kind = "search"
                  /\ log[j].result = "value"
    /\ \A j \in 1..Len(log) :
          (log[j].kind = "search" /\ log[j].result = "novalue") =>
              /\ \A i \in PipeReqs(log[j].pipe) : log[i].kind # "fetch"
              /\ Len(outcomes) >= log[j].pipe
              /\ outcomes[log[j].pipe].msg = "err_not_found"

\* A lookup found nothing and its pipeline, the last of the click, has ended.
C2_Witness ==
    /\ pc = "idle"
    /\ \E j \in 1..Len(log) :
          /\ log[j].kind = "search"
          /\ log[j].result = "novalue"
          /\ outcomes[log[j].pipe].msg = "err_not_found"
          /\ outcomes[log[j].pipe].cause = "empty"

\* C3: with "Multiple Symbols", no exception leaves main, no symbol's pipeline
\* is started twice, and when the handler has returned every selected symbol's
\* pipeline was started exactly once and ended, in the order selected.
C3_EverySymbolRunsOnce ==
    /\ ~escaped
    /\ search_option = "Multiple Symbols" =>
          /\ \A k \in 1..Len(selected_symbols) :
                Cardinality({i \in PipeReqs(k) : log[i].kind = "home"}) <= 1
          /\ pc = "idle" =>
                /\ Len(outcomes) = Len(selected_symbols)
                /\ \A k \in 1..Len(selected_symbols) :
                      /\ outcomes[k].symbol = selected_symbols[k]
                      /\ Cardinality({i \in PipeReqs(k) : log[i].kind = "home"}) = 1

\* Two symbols were selected, the first one's pipeline raised, the second
\* one's rendered.
C3_Witness ==
    /\ search_option = "Multiple Symbols"
    /\ pc = "idle"
    /\ Len(selected_symbols) = 2
    /\ Len(outcomes) = 2
    /\ outcomes[1].msg = "err_generic"
    /\ outcomes[2].msg = "rendered"

\* C4: a stage that meets a non-200 status, a network error, malformed JSON
\* or a missing field ends its pipeline with that stage's own message, never
\* with the generic one of the outermost handler.
C4_FailuresDegradeToNoValue ==
    \A k \in 1..Len(outcomes) :
        outcomes[k].cause \in {"status", "network", "malformed", "nofield"} =>
            outcomes[k].msg \in {"err_isin", "err_not_found", "err_fetch"}

\* C5: once loading has left the catalog empty, no request is issued and no
\* pipeline is started, whatever the user does.
C5_EmptyCatalogHalts ==
    (pc # "start" /\ stock_symbols = <<>>) =>
        /\ log = <<>>
        /\ outcomes = <<>>
        /\ pc = "idle"

\* C8: per pipeline the requests are homepage, quote (on the homepage's
\* session), search, indicators, each issued only when the one before it has
\* returned; only the last request of the log can be pending; a symbol's
\* first request follows the outcome of the symbol before it.
C8_LinearControlFlow ==
    /\ pc \in Stages => (log # <<>> /\ log[Len(log)].result = "pending")
    /\ \A i \in 1..Len(log) :
          /\ log[i].result = "pending" => (i = Len(log) /\ pc = log[i].kind)
          /\ log[i].pipe <= Len(outcomes) + 1
          /\ log[i].kind = "home" =>
                IF i = 1 THEN log[i].pipe = 1
                ELSE /\ log[i].pipe = log[i - 1].pipe + 1
                     /\ Len(outcomes) >= log[i - 1].pipe
          /\ log[i].kind # "home" =>
                /\ i > 1
                /\ log[i - 1].pipe = log[i].pipe
                /\ log[i - 1].result # "pending"
                /\ log[i - 1].kind = CASE log[i].kind = "quote" -> "home"
                                       [] log[i].kind = "search" -> "quote"
                                       [] log[i].kind = "fetch" -> "search"
          /\ log[i].kind = "quote" =>
                (log[i].session # 0 /\ log[i].session = log[i - 1].session)

\* The first symbol's pipeline went through all four requests and the second
\* symbol's has started.
C8_Witness ==
    /\ search_option = "Multiple Symbols"
    /\ \E i, j \in 1..Len(log) :
          /\ i < j
          /\ log[i].kind = "fetch" /\ log[i].pipe = 1
          /\ log[j].kind = "home" /\ log[j].pipe = 2

\* C9: every pipeline that has issued a request ends with an outcome, also
\* when an upstream never answers.
C9_EveryPipelineEnds ==
    \A k \in 1..Len(RawList) : (PipeReqs(k) # {}) ~> (Len(outcomes) >= k \/ log = <<>>)

\* The keyword sets of the if/elif chain, in the order they are tested.
Rules ==
    << [category |-> "Trend", keywords |-> {KW_MA, KW_Moving_Average, KW_EMA}],
       [category |-> "Momentum", keywords |-> {KW_RSI, KW_Stochastic, KW_Momentum, KW_MACD}],
       [category |-> "Volatility", keywords |-> {KW_Bollinger, KW_ATR, KW_Volatility}],
       [category |-> "Volume", keywords |-> {KW_Volume, KW_OBV}] >>

Matching(name) ==
    {r \in 1..Len(Rules) : \E k \in Rules[r].keywords : Contains(name, k)}

Categories == {"Trend", "Momentum", "Volatility", "Volume", "Other"}

\* The list displayed under a category; nothing is displayed as "Other".
ListOf(category) ==
    CASE category = "Trend" -> trend_indicators
      [] category = "Momentum" -> momentum_indicators
      [] category = "Volatility" -> volatility_indicators
      [] category = "Volume" -> volume_indicators
      [] OTHER -> <<>>

GroupsOf(indicator) == {c \in Categories : indicator \in Range(ListOf(c))}

\* C6: every indicator the loop has taken is in exactly one group; when its
\* name matches a keyword set it is the group of the first set that matches;
\* none is lost or doubled; "RSI(14)" is under Momentum, "20 Day MA" under
\* Trend.
C6_ClassifiedExactlyOnce ==
    /\ Len(trend_indicators) + Len(momentum_indicators)
         + Len(volatility_indicators) + Len(volume_indicators) = idx - 1
    /\ \A i \in 1..(idx - 1) :
          LET indicator == indicators[i]
              hits == Matching(indicator.name)
          IN /\ Cardinality(GroupsOf(indicator)) = 1
             /\ hits # {} =>
                   GroupsOf(indicator) =
                       {Rules[CHOOSE r \in hits : \A q \in hits : r <= q].category}
             /\ indicator.name = Name_RSI14 => GroupsOf(indicator) = {"Momentum"}
             /\ indicator.name = Name_20DayMA => GroupsOf(indicator) = {"Trend"}

\* The payload of "RSI(14)" and "20 Day MA" has been categorised.
C6_Witness ==
    /\ Len(indicators) = 2
    /\ idx = 3
    /\ indicators[1].name = Name_RSI14
    /\ indicators[2].name = Name_20DayMA
    /\ momentum_indicators = <<indicators[1]>>
    /\ trend_indicators = <<indicators[2]>>

\* C7: stripping the already stripped value yields the same string as
\* stripping once, for every symbol string.
C7_StripIdempotent == passes = 2 => sym = prev

\* C10: an indicator whose name contains 'MACD' or 'EMA' is under Trend and
\* not under Momentum; whatever is under Momentum matches a Momentum keyword
\* other than 'MACD'; an indicator matching no keyword is under Trend.
C10_TrendTakesMACD ==
    \A i \in 1..(idx - 1) :
        LET indicator == indicators[i]
            name == indicator.name
        IN /\ (Contains(name, KW_MACD) \/ Contains(name, KW_EMA)) =>
                  GroupsOf(indicator) = {"Trend"}
           /\ "Momentum" \in GroupsOf(indicator) =>
                  \/ Contains(name, KW_RSI)
                  \/ Contains(name, KW_Stochastic)
                  \/ Contains(name, KW_Momentum)
           /\ Matching(name) = {} => GroupsOf(indicator) = {"Trend"}

\* A 'MACD' indicator and one matching no keyword have both been put under
\* Trend.
C10_Witness ==
    /\ Len(indicators) = 2
    /\ idx = 3
    /\ Contains(indicators[1].name, KW_MACD)
    /\ indicators[2].name = Name_ADX14
    /\ trend_indicators = indicators
    /\ momentum_indicators = <<>>

====
